---- MODULE Spec2Model ----
(***************************************************************************)
(* State machine of the chat page (frontend/pages/index.tsx) together with *)
(* the parts of FileUploader.tsx and SourcesPanel.tsx that drive it.       *)
(*                                                                         *)
(* One action is one event handler or one asynchronous continuation, run   *)
(* to completion together with the render and the persistence effects      *)
(* (useEffect) that follow it.  The effects are idempotent writes of the   *)
(* rendered state, so running their bodies after every handler equals      *)
(* running them when a dependency changed.                                 *)
(*                                                                         *)
(* Abstractions: of a message id (`user-${Date.now()}`) the model keeps    *)
(* the prefix; of the toast list it keeps the notices the last handler     *)
(* raised (lastOp.toasts); thread ids are the integers 1, 2, ... in        *)
(* creation order (the clock is taken to advance between two thread        *)
(* creations); file ids are non-empty strings issued by the backend, and   *)
(* the file name and type of an upload result are functions of its file    *)
(* id; strings that are cut or searched are sequences of characters; the   *)
(* dates of a thread and the cosmetic fields of a source are left out.     *)
(***************************************************************************)
EXTENDS Integers, Sequences, FiniteSets, TLC

\* ---- bounds of the model ------------------------------------------------
MaxThreads == 3      \* threads created in one behaviour
MaxMsgs == 4         \* length of the visible message list
MaxInflight == 2     \* query requests in flight
MaxUploads == 1      \* upload requests in flight
MaxOps == 6          \* handlers and continuations run in one behaviour

\* ---- program constants --------------------------------------------------
HistoryLimit == 10

TitleLimit == 30
ProgressCap == 90

\* progress values the timer is seen to reach: below and above the cap
ProgressLevels == {50, 95}

FileIds == {"doc-1", "doc-2"}
Texts == {"hi"}
ThreadIds == 1..MaxThreads

NoThread == 0
Null == "null"
NullUpload == [file_id |-> Null]

\* a string as the sequence of its characters
Repeat(c, n) == [i \in 1..n |-> c]

\* result.filename of the upload result with file id f: "report.pdf" and a
\* name of 34 characters before its last dot
FileName(f) ==
    IF f = "doc-1"
    THEN << "r", "e", "p", "o", "r", "t", ".", "p", "d", "f" >>
    ELSE Repeat("x", 31) \o << ".", "v", "2", ".", "p", "n", "g" >>

\* result.type of the upload result with file id f
FileType(f) == IF f = "doc-1" THEN "pdf" ELSE "image"

\* the title and the icon of a thread made by "new chat"
NewChatTitle == << "N", "e", "w", " ", "C", "h", "a", "t" >>
NewChatIcon == "chat"

\* what the sidebar can pass to rename and to change-icon
Titles == { << "T" >> }
Icons == { "note" }

UserMessage(text) == [id |-> "user-", role |-> "user", text |-> text]
BotMessage(text, cites) ==
    [id |-> "bot-", role |-> "bot", text |-> text, sources |-> cites]

\* what the query endpoint answers with 2xx: {answer, sources}
Replies ==
    { [answer |-> "answer",
       sources |-> << [file |-> "report.pdf", page |-> 1] >>] }

SEED_MESSAGES ==
    << [id |-> "seed-1", role |-> "bot", text |-> "welcome"],
       [id |-> "seed-2", role |-> "bot", text |-> "hint"] >>

VARIABLES
    threads,          \* useState<Thread[]>            seq of [id, title, icon]
    activeThreadId,   \* useState<string | null>       NoThread = null
    messages,         \* useState<ChatMessage[]>       seq of [id, role, text]
    isTyping,         \* useState(false)
    sources,          \* useState<Source[]>            seq of [file_id, enabled]
    uploadResult,     \* useState<UploadResult | null> NullUpload = null
    useRag,           \* useState(false)
    actionLoading,    \* useState(false)
    bannerDismissed,  \* useState(false)
    qMessages,        \* the `messages` captured by the memoised queryBackend
    stThreads,        \* localStorage["rag-chat-threads"]
    stActive,         \* localStorage["rag-chat-active-thread"]
    stData,           \* localStorage["rag-chat-thread-data-" + id]
    inflight,         \* query requests sent and not yet settled
    uploads,          \* upload requests sent and not yet settled
    uploading,        \* FileUploader: useState(false)
    progress,         \* FileUploader: useState(0)
    intervals,        \* FileUploader: progress timers set and not cleared
    nextThread,       \* the next value of `thread-${Date.now()}`
    targetCleared,    \* history: the retrieval target was deleted, no upload since
    steps,            \* handlers and continuations the behaviour may still run
    lastOp            \* history: the handler that ran last

vars == << threads, activeThreadId, messages, isTyping, sources, uploadResult,
           useRag, actionLoading, bannerDismissed, qMessages,
           stThreads, stActive, stData, inflight, uploads, uploading,
           progress, intervals, nextThread, targetCleared, steps, lastOp >>

\* the state of the FileUploader component
uploader == << uploading, progress, intervals >>

\* ---- helpers ------------------------------------------------------------
Max(a, b) == IF a > b THEN a ELSE b

SeqMap(F(_), s) == [i \in 1..Len(s) |-> F(s[i])]

RemoveAt(s, i) == SubSeq(s, 1, i - 1) \o SubSeq(s, i + 1, Len(s))

\* Array.prototype.slice(-n)
Slice(s, n) == SubSeq(s, Max(1, Len(s) - n + 1), Len(s))

NoOp == [op |-> "init", thread |-> NoThread, file |-> Null,
         ragOn |-> FALSE, rejected |-> FALSE, hit |-> FALSE,
         toasts |-> <<>>]

\* one more handler has run; rec describes it
Done(rec) ==
    /\ steps > 0
    /\ steps' = steps - 1
    /\ lastOp' = rec

\* ---- browser storage ----------------------------------------------------
\* JSON.stringify / JSON.parse of the plain records kept here
JSONStringify(v) == [json |-> TRUE, value |-> v]
JSONParse(s) == s.value
NoItem == [json |-> FALSE, value |-> <<>>]

ThreadData(m, s) == [messages |-> m, sources |-> s]
NoData == [json |-> FALSE, value |-> ThreadData(<<>>, <<>>)]

SaveThreadsEffect(st, th) ==
    IF Len(th) > 0 THEN JSONStringify(th) ELSE st

SaveActiveEffect(st, a) ==
    IF a # NoThread THEN a ELSE st

SaveThreadDataEffectOff(sd, a, m, s) == sd

SaveThreadDataEffectMessagesOnly(sd, a, m, s) ==
    IF a # NoThread /\ Len(m) > 0
    THEN [sd EXCEPT ![a] = JSONStringify(ThreadData(m, <<>>))]
    ELSE sd

SaveThreadDataEffect(sd, a, m, s) ==
    IF a # NoThread /\ Len(m) > 0
    THEN [sd EXCEPT ![a] = JSONStringify(ThreadData(m, s))]
    ELSE sd

\* the render after a handler, followed by the three persistence effects;
\* sd is the thread-data storage as the handler itself left it
Commit(th, a, m, s, sd) ==
    /\ threads' = th
    /\ activeThreadId' = a
    /\ messages' = m
    /\ sources' = s
    /\ stThreads' = SaveThreadsEffect(stThreads, th)
    /\ stActive' = SaveActiveEffect(stActive, a)
    /\ stData' = SaveThreadDataEffect(sd, a, m, s)

\* the page as constructed over empty browser storage
Start(budget) ==
    /\ threads = <<>>
    /\ activeThreadId = NoThread
    /\ messages = SEED_MESSAGES
    /\ isTyping = FALSE
    /\ sources = <<>>
    /\ uploadResult = NullUpload
    /\ useRag = FALSE
    /\ actionLoading = FALSE
    /\ bannerDismissed = FALSE
    /\ qMessages = SEED_MESSAGES
    /\ stThreads = NoItem
    /\ stActive = NoThread
    /\ stData = [t \in ThreadIds |-> NoData]
    /\ inflight = <<>>
    /\ uploads = <<>>
    /\ uploading = FALSE
    /\ progress = 0
    /\ intervals = 0
    /\ nextThread = 1
    /\ targetCleared = FALSE
    /\ steps = budget
    /\ lastOp = NoOp

Init == Start(MaxOps)

\* ---- thread management --------------------------------------------------
HasThread(th, t) == \E i \in 1..Len(th) : th[i].id = t

\* a thread object; createdAt and updatedAt are left out
Thread(id, title, icon) == [id |-> id, title |-> title, icon |-> icon]

InsertThreadLast(prev, th) == Append(prev, th)

\* the setThreads updater of handleCreateThread: [newThread, ...prev]
InsertThread(prev, th) == << th >> \o prev

handleCreateThread ==
    /\ nextThread <= MaxThreads
    /\ Commit(InsertThread(threads,
                           Thread(nextThread, NewChatTitle, NewChatIcon)),
              nextThread, SEED_MESSAGES, sources, stData)
    /\ nextThread' = nextThread + 1
    /\ Done([NoOp EXCEPT !.op = "createThread", !.thread = nextThread])
    /\ UNCHANGED << isTyping, uploadResult, useRag, actionLoading,
                    bannerDismissed, qMessages, inflight, uploads,
                    targetCleared,
                    uploader >>

LoadMessagesSeedOnly(item) == SEED_MESSAGES

\* data.messages.length > 0 ? data.messages : SEED_MESSAGES, or the seed pair
\* when nothing is stored under the key
LoadMessages(item) ==
    IF item.json
    THEN LET data == JSONParse(item)
         IN IF Len(data.messages) > 0 THEN data.messages ELSE SEED_MESSAGES
    ELSE SEED_MESSAGES

SelectThreadWithoutSave(t, a, m, s, sd) ==
    [active |-> t, messages |-> LoadMessages(sd[t]), stData |-> sd]

\* handleSelectThread run with the rendered (a, m, s) over storage sd:
\* the new active id, the new message list and the storage it leaves
SelectThread(t, a, m, s, sd) ==
    LET sd1 == IF a # NoThread
               THEN [sd EXCEPT ![a] = JSONStringify(ThreadData(m, s))]
               ELSE sd
    IN [active |-> t, messages |-> LoadMessages(sd1[t]), stData |-> sd1]

LoadSources(s, item) == IF item.json THEN JSONParse(item).sources ELSE s

\* "Keep current sources for now (shared model)": the stored sources of the
\* selected thread are not loaded
KeepSources(s, item) == s

handleSelectThread(t) ==
    /\ HasThread(threads, t)
    /\ LET r == SelectThread(t, activeThreadId, messages, sources, stData)
       IN Commit(threads, r.active, r.messages,
                 KeepSources(sources, r.stData[t]), r.stData)
    /\ Done([NoOp EXCEPT !.op = "selectThread", !.thread = t,
                         !.hit = (activeThreadId = t)])
    /\ UNCHANGED << isTyping, uploadResult, useRag, actionLoading,
                    bannerDismissed, qMessages, inflight, uploads,
                    nextThread, targetCleared,
                    uploader >>

RenameEveryThread(th, t, title) ==
    LET Put(x) == [x EXCEPT !.title = title] IN SeqMap(Put, th)

\* prev.map(t => t.id === threadId ? {...t, title: newTitle} : t)
RenameThread(th, t, title) ==
    LET Put(x) == IF x.id = t THEN [x EXCEPT !.title = title] ELSE x
    IN SeqMap(Put, th)

handleRenameThread(t, title) ==
    /\ HasThread(threads, t)
    /\ Commit(RenameThread(threads, t, title), activeThreadId, messages,
              sources, stData)
    /\ Done([NoOp EXCEPT !.op = "renameThread", !.thread = t])
    /\ UNCHANGED << isTyping, uploadResult, useRag, actionLoading,
                    bannerDismissed, qMessages, inflight, uploads,
                    nextThread, targetCleared,
                    uploader >>

\* prev.map(t => t.id === threadId ? {...t, icon: newIcon} : t)
ChangeIcon(th, t, icon) ==
    LET Put(x) == IF x.id = t THEN [x EXCEPT !.icon = icon] ELSE x
    IN SeqMap(Put, th)

handleChangeIcon(t, icon) ==
    /\ HasThread(threads, t)
    /\ Commit(ChangeIcon(threads, t, icon), activeThreadId, messages,
              sources, stData)
    /\ Done([NoOp EXCEPT !.op = "changeIcon", !.thread = t])
    /\ UNCHANGED << isTyping, uploadResult, useRag, actionLoading,
                    bannerDismissed, qMessages, inflight, uploads,
                    nextThread, targetCleared,
                    uploader >>

RemoveThread(th, t) ==
    LET Keep(x) == x.id # t IN SelectSeq(th, Keep)

DeleteThreadShowsSeed(t, th, a, m, s, sd) ==
    LET sd1 == [sd EXCEPT ![t] = NoData]
        remaining == SelectSeq(th, LAMBDA x : x.id # t)
    IN IF a = t
       THEN [active |-> IF Len(remaining) > 0 THEN remaining[1].id
                        ELSE NoThread,
             messages |-> SEED_MESSAGES, stData |-> sd1]
       ELSE [active |-> a, messages |-> m, stData |-> sd1]

DeleteThreadKeepsActive(t, th, a, m, s, sd) ==
    [active |-> a, messages |-> m, stData |-> [sd EXCEPT ![t] = NoData]]

\* handleDeleteThread after setThreads: removeItem, then the choice of the
\* next active thread
DeleteThread(t, th, a, m, s, sd) ==
    LET sd1 == [sd EXCEPT ![t] = NoData]
        remaining == RemoveThread(th, t)
    IN IF a = t
       THEN IF Len(remaining) > 0
            THEN SelectThread(remaining[1].id, a, m, s, sd1)
            ELSE [active |-> NoThread, messages |-> SEED_MESSAGES,
                  stData |-> sd1]
       ELSE [active |-> a, messages |-> m, stData |-> sd1]

handleDeleteThread(t) ==
    /\ HasThread(threads, t)
    /\ LET r == DeleteThread(t, threads, activeThreadId, messages, sources,
                             stData)
       IN Commit(RemoveThread(threads, t), r.active, r.messages, sources,
                 r.stData)
    /\ Done([NoOp EXCEPT !.op = "deleteThread", !.thread = t,
                         !.hit = (activeThreadId = t)])
    /\ UNCHANGED << isTyping, uploadResult, useRag, actionLoading,
                    bannerDismissed, qMessages, inflight, uploads,
                    nextThread, targetCleared,
                    uploader >>

\* ---- source management --------------------------------------------------
HasSource(srcs, f) == \E i \in 1..Len(srcs) : srcs[i].file_id = f

ToggleSource(srcs, f) ==
    LET Flip(x) == IF x.file_id = f THEN [x EXCEPT !.enabled = ~x.enabled]
                   ELSE x
    IN SeqMap(Flip, srcs)

SetAllEnabledIgnored(srcs, enabled) == srcs

SetAllEnabled(srcs, enabled) ==
    LET Put(x) == [x EXCEPT !.enabled = enabled] IN SeqMap(Put, srcs)

RemoveSource(srcs, f) ==
    LET Keep(x) == x.file_id # f IN SelectSeq(srcs, Keep)

\* SourcesPanel: allEnabled, the value handleSelectAll negates
AllEnabled(srcs) ==
    /\ Len(srcs) > 0
    /\ \A i \in 1..Len(srcs) : srcs[i].enabled

\* the `messages` queryBackend sees: useCallback re-creates it only in a
\* render where uploadResult or useRag differs from the previous render
QueryClosure(changed, m) == IF changed THEN m ELSE qMessages

IsTarget(ur, f) == ur # NullUpload /\ ur.file_id = f

handleToggleSource(f) ==
    /\ HasSource(sources, f)
    /\ Commit(threads, activeThreadId, messages, ToggleSource(sources, f),
              stData)
    /\ Done([NoOp EXCEPT !.op = "toggleSource", !.file = f])
    /\ UNCHANGED << isTyping, uploadResult, useRag, actionLoading,
                    bannerDismissed, qMessages, inflight, uploads,
                    nextThread, targetCleared,
                    uploader >>

handleToggleAllSources(enabled) ==
    /\ Commit(threads, activeThreadId, messages,
              SetAllEnabled(sources, enabled), stData)
    /\ useRag' = (enabled /\ Len(sources) > 0)
    /\ qMessages' = QueryClosure(useRag' # useRag, messages)
    /\ Done([NoOp EXCEPT !.op = "toggleAll", !.hit = enabled])
    /\ UNCHANGED << isTyping, uploadResult, actionLoading, bannerDismissed,
                    inflight, uploads, nextThread, targetCleared,
                    uploader >>

\* SourcesPanel.handleSelectAll, the caller of onToggleAll
handleSelectAll == handleToggleAllSources(~AllEnabled(sources))

UploadResultKept(ur, f) == ur

\* handleDeleteSource: setUploadResult(null) when the target is deleted
UploadResultAfterDelete(ur, f) ==
    IF IsTarget(ur, f) THEN NullUpload ELSE ur

handleDeleteSource(f) ==
    /\ HasSource(sources, f)
    /\ Commit(threads, activeThreadId, messages, RemoveSource(sources, f),
              stData)
    /\ uploadResult' = UploadResultAfterDelete(uploadResult, f)
    /\ useRag' = IF IsTarget(uploadResult, f) THEN FALSE ELSE useRag
    /\ qMessages' = QueryClosure(uploadResult' # uploadResult
                                 \/ useRag' # useRag, messages)
    /\ targetCleared' = IF IsTarget(uploadResult, f) THEN TRUE
                        ELSE targetCleared
    /\ Done([NoOp EXCEPT !.op = "deleteSource", !.file = f,
                         !.hit = IsTarget(uploadResult, f)])
    /\ UNCHANGED << isTyping, actionLoading, bannerDismissed, inflight,
                    uploads, nextThread,
                    uploader >>

\* ---- notices ------------------------------------------------------------
\* showToast(message, type) appends one notice of the given type
showToast(ts, type) == Append(ts, type)

\* ---- query backend -------------------------------------------------------
\* forceRag ?? useRag
RagOn(forceRag, flag) == IF forceRag = "absent" THEN flag ELSE forceRag = "true"

QueryNeverRejected(ragOn, ur) == FALSE

\* ragOn && !uploadResult
QueryRejected(ragOn, ur) == ragOn /\ ur = NullUpload

\* uploadResult?.file_id || null
FileIdOrNull(ur) ==
    IF ur = NullUpload \/ ur.file_id = "" THEN Null ELSE ur.file_id

\* messages.filter(user or bot).slice(-10).map({role, text})
History(msgs) ==
    LET Turn(m) == m.role \in {"user", "bot"}
        Entry(m) == [role |-> m.role, text |-> m.text]
    IN SeqMap(Entry, Slice(SelectSeq(msgs, Turn), HistoryLimit))

\* the body of the POST; awaited tells that handleRecommendAction awaits
\* it, thread is the thread that was active when the query was issued
QueryRequest(ur, query, type, ragOn, hist, awaited) ==
    [file_id |-> FileIdOrNull(ur), query |-> query, type |-> type,
     use_rag |-> ragOn, history |-> hist, awaited |-> awaited,
     thread |-> activeThreadId]

\* queryBackend up to its first await: the typing flag, the requests in
\* flight and the notices it leaves
queryBackend(query, type, forceRag, awaited) ==
    LET ragOn == RagOn(forceRag, useRag)
    IN IF QueryRejected(ragOn, uploadResult)
       THEN [isTyping |-> isTyping, inflight |-> inflight,
             toasts |-> showToast(<<>>, "info"), rejected |-> TRUE,
             ragOn |-> ragOn]
       ELSE [isTyping |-> TRUE,
             inflight |-> Append(inflight,
                 QueryRequest(uploadResult, query, type, ragOn,
                              History(qMessages), awaited)),
             toasts |-> <<>>, rejected |-> FALSE, ragOn |-> ragOn]

handleSend(text) ==
    /\ Len(messages) < MaxMsgs
    /\ LET q == queryBackend(text, "freeform", "absent", FALSE)
       IN /\ Len(q.inflight) <= MaxInflight
          /\ isTyping' = q.isTyping
          /\ inflight' = q.inflight
          /\ Done([NoOp EXCEPT !.op = "send", !.ragOn = q.ragOn,
                               !.rejected = q.rejected, !.toasts = q.toasts])
    /\ Commit(threads, activeThreadId, Append(messages, UserMessage(text)),
              sources, stData)
    /\ UNCHANGED << uploadResult, useRag, actionLoading, bannerDismissed,
                    qMessages, uploads, nextThread, targetCleared,
                    uploader >>

\* the banner with the two action buttons is rendered
BannerShown == uploadResult # NullUpload /\ ~bannerDismissed

handleRecommendAction(type) ==
    /\ BannerShown
    /\ ~actionLoading
    /\ Len(messages) < MaxMsgs
    /\ LET q == queryBackend(type, type, "true", TRUE)
       IN /\ Len(q.inflight) <= MaxInflight
          /\ isTyping' = q.isTyping
          /\ inflight' = q.inflight
          /\ IF q.rejected
             THEN actionLoading' = FALSE /\ bannerDismissed' = TRUE
             ELSE actionLoading' = TRUE /\ UNCHANGED bannerDismissed
          /\ Done([NoOp EXCEPT !.op = "recommend", !.ragOn = q.ragOn,
                               !.rejected = q.rejected, !.toasts = q.toasts])
    /\ Commit(threads, activeThreadId, Append(messages, UserMessage(type)),
              sources, stData)
    /\ UNCHANGED << uploadResult, useRag, qMessages, uploads, nextThread,
                    targetCleared,
                    uploader >>

dismissBanner ==
    /\ BannerShown
    /\ bannerDismissed' = TRUE
    /\ Done([NoOp EXCEPT !.op = "dismissBanner"])
    /\ UNCHANGED << threads, activeThreadId, messages, isTyping, sources,
                    uploadResult, useRag, actionLoading, qMessages,
                    stThreads, stActive, stData, inflight, uploads,
                    nextThread, targetCleared,
                    uploader >>

AfterQueryKeepsLoading(r) == UNCHANGED << actionLoading, bannerDismissed >>

\* handleRecommendAction after `await queryBackend(...)`
AfterQuery(r) ==
    IF r.awaited
    THEN actionLoading' = FALSE /\ bannerDismissed' = TRUE
    ELSE UNCHANGED << actionLoading, bannerDismissed >>

addBotMessageFirst(prev, text, cites) ==
    << BotMessage(text, cites) >> \o prev

\* addBotMessage(text, sources): the setMessages updater
addBotMessage(prev, text, cites) == Append(prev, BotMessage(text, cites))

\* the query endpoint answered 2xx: the rest of the try block
querySucceeded(i) ==
    /\ i \in 1..Len(inflight)
    /\ Len(messages) < MaxMsgs
    /\ isTyping' = FALSE
    /\ \E data \in Replies :
          Commit(threads, activeThreadId,
                 addBotMessage(messages, data.answer, data.sources),
                 sources, stData)
    /\ inflight' = RemoveAt(inflight, i)
    /\ AfterQuery(inflight[i])
    /\ Done([NoOp EXCEPT !.op = "querySucceeded",
                         !.thread = inflight[i].thread,
                         !.ragOn = inflight[i].use_rag,
                         !.hit = inflight[i].awaited])
    /\ UNCHANGED << uploadResult, useRag, qMessages, uploads, nextThread,
                    targetCleared,
                    uploader >>

CatchQueryErrorRetries(typing, m, reqs, r) ==
    [isTyping |-> TRUE, messages |-> m, inflight |-> Append(reqs, r),
     toasts |-> showToast(<<>>, "error")]

\* the catch block of queryBackend, for request r of the requests reqs that
\* stay in flight: the typing flag, the message list, the requests in flight
\* and the notices it leaves
CatchQueryError(typing, m, reqs, r) ==
    [isTyping |-> FALSE, messages |-> m, inflight |-> reqs,
     toasts |-> showToast(<<>>, "error")]

\* the query endpoint answered non-2xx or fetch threw
queryFailed(i) ==
    /\ i \in 1..Len(inflight)
    /\ LET c == CatchQueryError(isTyping, messages, RemoveAt(inflight, i),
                                inflight[i])
       IN /\ isTyping' = c.isTyping
          /\ inflight' = c.inflight
          /\ Commit(threads, activeThreadId, c.messages, sources, stData)
          /\ Done([NoOp EXCEPT !.op = "queryFailed",
                               !.ragOn = inflight[i].use_rag,
                               !.hit = inflight[i].awaited,
                               !.toasts = c.toasts])
    /\ AfterQuery(inflight[i])
    /\ UNCHANGED << uploadResult, useRag, qMessages, uploads, nextThread,
                    targetCleared,
                    uploader >>

\* ---- upload --------------------------------------------------------------
\* FileUploader.uploadFile up to its fetch: the request is sent; the
\* onUploadComplete it will call is the handleUploadComplete of this render,
\* which has captured threads.length; nothing keeps a second upload from
\* starting while one is in flight, limit bounds their number
StartUpload(limit) ==
    /\ Len(uploads) < limit
    /\ uploads' = Append(uploads, [noThreads |-> (Len(threads) = 0)])
    /\ uploading' = TRUE
    /\ progress' = 0
    /\ intervals' = intervals + 1
    /\ Done([NoOp EXCEPT !.op = "uploadFile"])
    /\ UNCHANGED << threads, activeThreadId, messages, isTyping, sources,
                    uploadResult, useRag, actionLoading, bannerDismissed,
                    qMessages, stThreads, stActive, stData, inflight,
                    nextThread, targetCleared >>

uploadFile == StartUpload(MaxUploads)

\* filename.replace(/\.[^/.]+$/, ""): the last dot and what follows it are
\* cut when at least one character follows and none of them is a slash
StripExtension(name) ==
    LET dots == { i \in 1..Len(name) :
                    /\ name[i] = "."
                    /\ i < Len(name)
                    /\ \A j \in (i + 1)..Len(name) : name[j] \notin {".", "/"} }
    IN IF dots = {} THEN name
       ELSE SubSeq(name, 1, (CHOOSE i \in dots : TRUE) - 1)

\* String.prototype.slice(0, n)
Truncate(str, n) == SubSeq(str, 1, IF Len(str) < n THEN Len(str) ELSE n)

\* the thread handleUploadComplete makes when it saw no thread
UploadThread(id, f) ==
    Thread(id, Truncate(StripExtension(FileName(f)), TitleLimit),
           IF FileType(f) = "pdf" THEN "pdf" ELSE "image")

AddSourceNever(prev, f) == prev

AddSourceAlways(prev, f) == Append(prev, [file_id |-> f, enabled |-> TRUE])

AddSourceDisabled(prev, f) ==
    IF HasSource(prev, f) THEN prev
    ELSE Append(prev, [file_id |-> f, enabled |-> FALSE])

\* the setSources updater of handleUploadComplete
AddSource(prev, f) ==
    IF HasSource(prev, f) THEN prev
    ELSE Append(prev, [file_id |-> f, enabled |-> TRUE])

\* the upload endpoint answered 2xx with file id f: the uploader clears its
\* progress timer, shows 100 % and leaves the uploading state, and the
\* 400 ms timer ran handleUploadComplete(result)
handleUploadComplete(i, f) ==
    /\ i \in 1..Len(uploads)
    /\ uploads[i].noThreads => nextThread <= MaxThreads
    /\ uploadResult' = [file_id |-> f]
    /\ useRag' = TRUE
    /\ bannerDismissed' = FALSE
    /\ IF uploads[i].noThreads
       THEN /\ Commit(<< UploadThread(nextThread, f) >>, nextThread,
                      messages, AddSource(sources, f), stData)
            /\ nextThread' = nextThread + 1
       ELSE /\ Commit(threads, activeThreadId, messages,
                      AddSource(sources, f), stData)
            /\ UNCHANGED nextThread
    /\ qMessages' = QueryClosure(TRUE, messages)
    /\ uploads' = RemoveAt(uploads, i)
    /\ intervals' = intervals - 1
    /\ progress' = 100
    /\ uploading' = FALSE
    /\ targetCleared' = FALSE
    /\ Done([NoOp EXCEPT !.op = "uploadComplete", !.file = f,
                         !.hit = HasSource(sources, f),
                         !.toasts = showToast(<<>>, "success")])
    /\ UNCHANGED << isTyping, actionLoading, inflight >>

CatchUploadErrorKeepsProgress(p) ==
    [progress |-> p, toasts |-> showToast(<<>>, "error")]

\* the catch block of uploadFile: setProgress(0) and onError(message), which
\* the page passes to showToast
CatchUploadError(p) ==
    [progress |-> 0, toasts |-> showToast(<<>>, "error")]

\* the upload endpoint answered non-2xx or fetch threw
uploadFailed(i) ==
    /\ i \in 1..Len(uploads)
    /\ uploads' = RemoveAt(uploads, i)
    /\ intervals' = intervals - 1
    /\ uploading' = FALSE
    /\ LET c == CatchUploadError(progress)
       IN /\ progress' = c.progress
          /\ Done([NoOp EXCEPT !.op = "uploadFailed", !.toasts = c.toasts])
    /\ UNCHANGED << threads, activeThreadId, messages, isTyping, sources,
                    uploadResult, useRag, actionLoading, bannerDismissed,
                    qMessages, stThreads, stActive, stData, inflight,
                    nextThread, targetCleared >>

\* the progress timer fires: setProgress(p => p < 90 ? p + random * 12 : p);
\* the levels reached after some ticks are those of ProgressLevels
progressTick ==
    /\ intervals > 0
    /\ progress < ProgressCap
    /\ \E p \in ProgressLevels : p > progress /\ progress' = p
    /\ Done([NoOp EXCEPT !.op = "progressTick"])
    /\ UNCHANGED << threads, activeThreadId, messages, isTyping, sources,
                    uploadResult, useRag, actionLoading, bannerDismissed,
                    qMessages, stThreads, stActive, stData, inflight,
                    uploads, uploading, intervals, nextThread,
                    targetCleared >>

\* ---- page load ----------------------------------------------------------
\* the mount effect: what it sets from storage, over the initial state
MountLoad ==
    LET none == [threads |-> <<>>, active |-> NoThread,
                 messages |-> SEED_MESSAGES, sources |-> <<>>]
        Restore(parsed, id) ==
            IF stData[id].json
            THEN LET data == JSONParse(stData[id])
                 IN [threads |-> parsed, active |-> id,
                     messages |-> IF Len(data.messages) > 0
                                  THEN data.messages ELSE SEED_MESSAGES,
                     sources |-> data.sources]
            ELSE [none EXCEPT !.threads = parsed, !.active = id]
    IN IF stThreads.json
       THEN LET parsed == JSONParse(stThreads)
            IN IF stActive # NoThread /\ HasThread(parsed, stActive)
               THEN Restore(parsed, stActive)
               ELSE IF Len(parsed) > 0
                    THEN Restore(parsed, parsed[1].id)
                    ELSE [none EXCEPT !.threads = parsed]
       ELSE none

\* the page is reloaded: state is constructed anew, pending requests and
\* timers are gone, the mount effect and the persistence effects run
reload ==
    /\ LET r == MountLoad
       IN Commit(r.threads, r.active, r.messages, r.sources, stData)
    /\ isTyping' = FALSE
    /\ uploadResult' = NullUpload
    /\ useRag' = FALSE
    /\ actionLoading' = FALSE
    /\ bannerDismissed' = FALSE
    /\ qMessages' = SEED_MESSAGES
    /\ inflight' = <<>>
    /\ uploads' = <<>>
    /\ uploading' = FALSE
    /\ progress' = 0
    /\ intervals' = 0
    /\ targetCleared' = FALSE
    /\ Done([NoOp EXCEPT !.op = "reload"])
    /\ UNCHANGED nextThread

Next ==
    \/ handleCreateThread
    \/ \E t \in ThreadIds : handleSelectThread(t)
    \/ \E t \in ThreadIds : handleDeleteThread(t)
    \/ \E t \in ThreadIds, title \in Titles : handleRenameThread(t, title)
    \/ \E t \in ThreadIds, icon \in Icons : handleChangeIcon(t, icon)
    \/ \E f \in FileIds : handleToggleSource(f)
    \/ handleSelectAll
    \/ \E f \in FileIds : handleDeleteSource(f)
    \/ \E x \in Texts : handleSend(x)
    \/ \E y \in {"summarize", "quiz"} : handleRecommendAction(y)
    \/ dismissBanner
    \/ \E i \in 1..MaxInflight : querySucceeded(i)
    \/ \E i \in 1..MaxInflight : queryFailed(i)
    \/ uploadFile
    \/ \E i \in 1..MaxUploads, f \in FileIds : handleUploadComplete(i, f)
    \/ \E i \in 1..MaxUploads : uploadFailed(i)
    \/ reload

Spec == Init /\ [][Next]_vars

\* The retrieval side of the page (sources, upload, query, page load) with
\* the thread sidebar left alone, explored two steps deeper.
InitRetrieval == Start(MaxOps + 2)

NextRetrieval ==
    \/ \E f \in FileIds : handleToggleSource(f)
    \/ handleSelectAll
    \/ \E f \in FileIds : handleDeleteSource(f)
    \/ \E x \in Texts : handleSend(x)
    \/ \E y \in {"summarize", "quiz"} : handleRecommendAction(y)
    \/ dismissBanner
    \/ \E i \in 1..MaxInflight : querySucceeded(i)
    \/ \E i \in 1..MaxInflight : queryFailed(i)
    \/ uploadFile
    \/ \E i \in 1..MaxUploads, f \in FileIds : handleUploadComplete(i, f)
    \/ \E i \in 1..MaxUploads : uploadFailed(i)
    \/ reload

SpecRetrieval == InitRetrieval /\ [][NextRetrieval]_vars

\* The uploader with the page handlers it calls, where one more upload can
\* be in flight and the progress timer is seen to fire.
InitUploader == Start(MaxOps)

NextUploader ==
    \/ StartUpload(MaxUploads + 1)
    \/ progressTick
    \/ \E i \in 1..(MaxUploads + 1), f \in FileIds :
          handleUploadComplete(i, f)
    \/ \E i \in 1..(MaxUploads + 1) : uploadFailed(i)
    \/ handleCreateThread
    \/ \E f \in FileIds : handleDeleteSource(f)
    \/ reload

SpecUploader == InitUploader /\ [][NextUploader]_vars

\* The recommend action with its responses: the retrieval side of the page,
\* where a handler is started only while the step budget still covers the
\* response of every request in flight, and every query request settles
\* (the fetch promise resolves or rejects).
Pending == Len(inflight) + Len(uploads)

Settle == \E i \in 1..MaxInflight : querySucceeded(i) \/ queryFailed(i)

NextRecommend ==
    \/ /\ steps >= Pending + 2
       /\ \/ \E f \in FileIds : handleToggleSource(f)
          \/ handleSelectAll
          \/ \E f \in FileIds : handleDeleteSource(f)
          \/ \E x \in Texts : handleSend(x)
          \/ \E y \in {"summarize", "quiz"} : handleRecommendAction(y)
          \/ dismissBanner
          \/ uploadFile
          \/ reload
    \/ Settle
    \/ \E i \in 1..MaxUploads, f \in FileIds : handleUploadComplete(i, f)
    \/ \E i \in 1..MaxUploads : uploadFailed(i)

InitRecommend == Start(MaxOps + 2)

SpecRecommend == InitRecommend /\ [][NextRecommend]_vars /\ WF_vars(Settle)

\* ==== properties =========================================================
IsQuery(o) == o.op \in {"send", "recommend"}

\* the step sent a request to the query endpoint
Sent == Len(inflight') = Len(inflight) + 1
NewRequest == inflight'[Len(inflight')]

\* C1: the active thread id is null or the id of a thread in the thread
\* list, and right after a delete it is not the id of the deleted thread.
C1_ActiveThreadListed ==
    /\ activeThreadId = NoThread \/ HasThread(threads, activeThreadId)
    /\ lastOp.op = "deleteThread" => activeThreadId # lastOp.thread

\* the active thread was deleted and another thread took its place
C1_Witness ==
    /\ lastOp.op = "deleteThread"
    /\ lastOp.hit
    /\ activeThreadId # NoThread

\* C2: no request in flight has use_rag = true with file_id = null; a query
\* called with retrieval on and no upload result sends nothing, raises
\* exactly one informational notice and does not touch the typing indicator,
\* which is off unless an earlier query is still in flight.
C2_NoRagWithoutTarget ==
    [][ /\ \A i \in 1..Len(inflight') :
              inflight'[i].use_rag => inflight'[i].file_id # Null
        /\ (IsQuery(lastOp') /\ lastOp'.ragOn /\ uploadResult = NullUpload)
           => /\ inflight' = inflight
              /\ lastOp'.toasts = << "info" >>
              /\ isTyping' = isTyping
              /\ inflight = <<>> => ~isTyping' ]_vars

\* a query that asked for retrieval was rejected locally
C2_Witness ==
    /\ IsQuery(lastOp)
    /\ lastOp.ragOn
    /\ lastOp.rejected
    /\ uploadResult = NullUpload

\* C3: deleting the source that is the retrieval target clears the target
\* and the retrieval flag, the target stays cleared until an upload
\* completes, and until then every query asking for retrieval is rejected
\* locally: no request is sent.
C3_DeletedTargetBlocksRetrieval ==
    [][ /\ (lastOp'.op = "deleteSource" /\ lastOp'.hit)
           => (uploadResult' = NullUpload /\ useRag' = FALSE)
        /\ targetCleared' => uploadResult' = NullUpload
        /\ (targetCleared /\ IsQuery(lastOp') /\ lastOp'.ragOn)
           => (inflight' = inflight /\ lastOp'.toasts = << "info" >>) ]_vars

\* after the target was deleted, a query asking for retrieval was rejected
C3_Witness ==
    /\ targetCleared
    /\ lastOp.op = "send"
    /\ lastOp.ragOn
    /\ lastOp.rejected

\* C4: when a query fails, the typing indicator is cleared, exactly one
\* error notice is raised, the message list is left as it is and the failed
\* request is not sent again; a send adds only the user's own message.
C4_QueryFailureLeavesConversation ==
    [][ /\ lastOp'.op = "queryFailed"
           => /\ isTyping' = FALSE
              /\ lastOp'.toasts = << "error" >>
              /\ messages' = messages
              /\ \E i \in 1..Len(inflight) : inflight' = RemoveAt(inflight, i)
        /\ lastOp'.op = "send"
           => \E x \in Texts : messages' = Append(messages, UserMessage(x))
      ]_vars

\* a query failed and the user's message is the last one of the list
C4_Witness ==
    /\ lastOp.op = "queryFailed"
    /\ messages[Len(messages)].role = "user"
    /\ ~isTyping

\* C5: every request sent with use_rag = true targets a file id whose
\* source is in the source list with enabled = true.
C5_RagTargetsEnabledSource ==
    [][ (Sent /\ NewRequest.use_rag)
        => \E i \in 1..Len(sources) :
              /\ sources[i].file_id = NewRequest.file_id
              /\ sources[i].enabled ]_vars

\* C6 as stated: after handleUploadComplete with file id F the list holds
\* a source F with enabled = true, retrieval is on and F is the target.
C6_UploadEnablesSource ==
    [][ lastOp'.op = "uploadComplete"
        => /\ \E i \in 1..Len(sources') :
                 /\ sources'[i].file_id = lastOp'.file
                 /\ sources'[i].enabled
           /\ useRag'
           /\ uploadResult' = [file_id |-> lastOp'.file] ]_vars

\* C6 amended: after handleUploadComplete with file id F retrieval is on and
\* F is the target; if F was not in the source list, a source F with
\* enabled = true is appended; if it was, the list is left as it is.
C6_UploadAddsSourceOnce ==
    [][ lastOp'.op = "uploadComplete"
        => /\ useRag'
           /\ uploadResult' = [file_id |-> lastOp'.file]
           /\ HasSource(sources, lastOp'.file) => sources' = sources
           /\ ~HasSource(sources, lastOp'.file)
              => sources' = Append(sources, [file_id |-> lastOp'.file,
                                             enabled |-> TRUE]) ]_vars

\* a file id already in the list, disabled, was uploaded again
C6_Witness ==
    /\ lastOp.op = "uploadComplete"
    /\ lastOp.hit
    /\ \E i \in 1..Len(sources) :
          sources[i].file_id = lastOp.file /\ ~sources[i].enabled

C8_DeletedThreadHasNoSnapshot ==
    lastOp.op = "deleteThread" => ~stData[lastOp.thread].json

\* the source flags of a stored snapshot, as far as the sources are listed
FlagsAsStored(srcs, item) ==
    \A i \in 1..Len(srcs), j \in 1..Len(JSONParse(item).sources) :
        srcs[i].file_id = JSONParse(item).sources[j].file_id
        => srcs[i].enabled = JSONParse(item).sources[j].enabled

\* C9 as stated: selecting a thread after having been on another one yields
\* the message list and the source enabled flags stored for it.
C9_SelectRestoresSnapshot ==
    [][ (lastOp'.op = "selectThread" /\ ~lastOp'.hit
         /\ stData[lastOp'.thread].json)
        => /\ messages' = JSONParse(stData[lastOp'.thread]).messages
           /\ FlagsAsStored(sources', stData[lastOp'.thread]) ]_vars

\* C9 amended: selecting a thread after having been on another one yields
\* the message list stored for it; the source list and its enabled flags
\* stay as they are on the page.
C9_SelectRestoresMessages ==
    [][ (lastOp'.op = "selectThread" /\ ~lastOp'.hit
         /\ stData[lastOp'.thread].json)
        => /\ messages' = JSONParse(stData[lastOp'.thread]).messages
           /\ sources' = sources ]_vars

\* a thread with a conversation of its own was selected from another thread
C9_Witness ==
    /\ lastOp.op = "selectThread"
    /\ ~lastOp.hit
    /\ messages # SEED_MESSAGES

\* C10: the history of a request is the last 10 user/bot messages of the
\* conversation as it stands when the query is issued (before or after the
\* user's own message is added), at most 10 entries.
C10_HistoryIsCurrent ==
    [][ Sent
        => /\ Len(NewRequest.history) <= HistoryLimit
           /\ \/ NewRequest.history = History(messages)
              \/ NewRequest.history = History(messages') ]_vars

\* C11: while the typing indicator is shown no send is accepted, and at most
\* one query request is in flight.
C11_OneQueryInFlight ==
    [][ /\ isTyping => lastOp'.op # "send"
        /\ Len(inflight') <= 1 ]_vars

\* C12: the reply to a query is appended to the message list of the thread
\* that is active when the response is handled and is persisted under that
\* thread's key; no other thread's snapshot, the one of the thread the query
\* was issued from included, is written.
C12_ReplyGoesToActiveThread ==
    [][ lastOp'.op = "querySucceeded"
        => /\ activeThreadId' = activeThreadId
           /\ \E data \in Replies :
                 messages' = Append(messages,
                                    BotMessage(data.answer, data.sources))
           /\ activeThreadId # NoThread
              => stData'[activeThreadId] =
                    JSONStringify(ThreadData(messages', sources'))
           /\ \A t \in ThreadIds :
                 t # activeThreadId => stData'[t] = stData[t] ]_vars

\* a reply was handled while a thread other than the one the query was issued
\* from was active
C12_Witness ==
    /\ lastOp.op = "querySucceeded"
    /\ lastOp.thread # NoThread
    /\ HasThread(threads, lastOp.thread)
    /\ activeThreadId # NoThread
    /\ activeThreadId # lastOp.thread
    /\ messages[Len(messages)].role = "bot"
    /\ messages[Len(messages)].id = "bot-"

IsPrefix(a, b) == Len(a) <= Len(b) /\ SubSeq(b, 1, Len(a)) = a

\* C13: send, recommend action and query response only append: the message
\* list before is a prefix of the list after, so no message in it changes
\* its id, role or text.
C13_MessagesAppendOnly ==
    [][ lastOp'.op \in {"send", "recommend", "querySucceeded"}
        => /\ IsPrefix(messages, messages')
           /\ \A i \in 1..Len(messages) :
                 /\ messages'[i].id = messages[i].id
                 /\ messages'[i].role = messages[i].role
                 /\ messages'[i].text = messages[i].text ]_vars

\* a reply was appended after the user's message
C13_Witness ==
    /\ lastOp.op = "querySucceeded"
    /\ Len(messages) = Len(SEED_MESSAGES) + 2
    /\ messages[Len(messages) - 1].role = "user"
    /\ messages[Len(messages)].role = "bot"

\* C14: when an upload result is handled over an empty thread list, exactly
\* one thread is made, titled with the file name minus its extension cut to
\* 30 characters, and made active; over a non-empty list the thread list is
\* left as it is.
C14_UploadCreatesFirstThread ==
    [][ lastOp'.op = "uploadComplete"
        => IF Len(threads) = 0
           THEN /\ Len(threads') = 1
                /\ threads'[1].title =
                      Truncate(StripExtension(FileName(lastOp'.file)),
                               TitleLimit)
                /\ activeThreadId' = threads'[1].id
           ELSE threads' = threads ]_vars

ThreadOps ==
    {"createThread", "selectThread", "renameThread", "changeIcon",
     "deleteThread"}

\* C15: thread create, select, rename, change-icon and delete leave the
\* source list, the retrieval target and the retrieval flag unchanged.
C15_ThreadOpsKeepSources ==
    [][ lastOp'.op \in ThreadOps
        => /\ sources' = sources
           /\ uploadResult' = uploadResult
           /\ useRag' = useRag ]_vars

\* another thread was selected while a document is the retrieval target and
\* a source is unticked
C15_Witness ==
    /\ lastOp.op = "selectThread"
    /\ ~lastOp.hit
    /\ uploadResult # NullUpload
    /\ useRag
    /\ \E i \in 1..Len(sources) : ~sources[i].enabled

\* C16: no two sources of the source list have the same file id.
C16_SourceIdsUnique ==
    \A i, j \in 1..Len(sources) :
        sources[i].file_id = sources[j].file_id => i = j

\* an upload result whose file id was already listed was handled over a list
\* of two sources
C16_Witness ==
    /\ lastOp.op = "uploadComplete"
    /\ lastOp.hit
    /\ Len(sources) = 2

\* C17: handleToggleAllSources(v) sets the enabled flag of every source to v,
\* keeps the sources and their order, and sets the retrieval flag to
\* (v and the source list is non-empty).
C17_ToggleAllSetsEveryFlag ==
    [][ lastOp'.op = "toggleAll"
        => /\ Len(sources') = Len(sources)
           /\ \A i \in 1..Len(sources) :
                 /\ sources'[i].file_id = sources[i].file_id
                 /\ sources'[i].enabled = lastOp'.hit
           /\ useRag' = (lastOp'.hit /\ Len(sources) > 0) ]_vars

\* toggle-all switched two sources on, and retrieval with them
C17_Witness ==
    /\ lastOp.op = "toggleAll"
    /\ lastOp.hit
    /\ Len(sources) = 2
    /\ useRag

\* C18: every thread in the list just before an upload completion is handled
\* is in the list afterwards.
C18_UploadKeepsThreads ==
    [][ lastOp'.op = "uploadComplete"
        => \A i \in 1..Len(threads) :
              \E j \in 1..Len(threads') : threads'[j] = threads[i] ]_vars

\* C19: after handleDeleteThread(t) the stored thread list does not hold t,
\* the stored active-thread pointer is not t, and the mount load over
\* storage neither lists t nor makes it active.
C19_DeletedThreadNotPersisted ==
    lastOp.op = "deleteThread"
    => /\ ~HasThread(JSONParse(stThreads), lastOp.thread)
       /\ stActive # lastOp.thread
       /\ ~HasThread(MountLoad.threads, lastOp.thread)
       /\ MountLoad.active # lastOp.thread

\* handleSelectThread(t) as the claim C20 describes it
SelectedAsDescribed(t) ==
    LET data == JSONStringify(ThreadData(messages, sources))
        saved == IF activeThreadId # NoThread
                 THEN [stData EXCEPT ![activeThreadId] = data]
                 ELSE stData
    IN /\ (activeThreadId # NoThread /\ activeThreadId # t)
          => stData'[activeThreadId] = data
       /\ activeThreadId' = t
       /\ messages' = IF saved[t].json
                          /\ Len(JSONParse(saved[t]).messages) > 0
                       THEN JSONParse(saved[t]).messages
                       ELSE SEED_MESSAGES

\* C20: handleSelectThread(t), called from the sidebar or by
\* handleDeleteThread for the first remaining thread, writes the current
\* {messages, sources} under the previously active thread id, makes t active
\* and sets the message list to t's stored list when one is stored and
\* non-empty, otherwise to the two seed messages.
C20_SelectSavesThenLoads ==
    [][ /\ lastOp'.op = "selectThread" => SelectedAsDescribed(lastOp'.thread)
        /\ (lastOp'.op = "deleteThread" /\ lastOp'.hit
            /\ Len(RemoveThread(threads, lastOp'.thread)) > 0)
           => SelectedAsDescribed(RemoveThread(threads, lastOp'.thread)[1].id)
      ]_vars

\* a thread was selected from another thread whose conversation is stored
C20_Witness ==
    /\ lastOp.op = "selectThread"
    /\ ~lastOp.hit
    /\ \E t \in ThreadIds :
          /\ t # activeThreadId
          /\ HasThread(threads, t)
          /\ stData[t].json
          /\ JSONParse(stData[t]).messages # SEED_MESSAGES

\* C21: handleCreateThread puts the new thread at index 0 keeping the
\* existing threads in their order, makes it the active thread and sets the
\* message list to the two seed messages.
C21_CreateInsertsAtHead ==
    [][ lastOp'.op = "createThread"
        => /\ ~HasThread(threads, lastOp'.thread)
           /\ Len(threads') = Len(threads) + 1
           /\ threads'[1].id = lastOp'.thread
           /\ SubSeq(threads', 2, Len(threads')) = threads
           /\ activeThreadId' = lastOp'.thread
           /\ messages' = SEED_MESSAGES ]_vars

\* a second thread was created while the first one holds a conversation
C21_Witness ==
    /\ lastOp.op = "createThread"
    /\ Len(threads) = 2
    /\ messages = SEED_MESSAGES
    /\ stData[threads[2].id].json
    /\ JSONParse(stData[threads[2].id]).messages # SEED_MESSAGES

\* the messages stored under thread t, the seed pair if none are stored
StoredMessages(t) ==
    IF stData[t].json /\ Len(JSONParse(stData[t]).messages) > 0
    THEN JSONParse(stData[t]).messages
    ELSE SEED_MESSAGES

\* C22: deleting the active thread makes the first remaining thread active
\* and shows its stored messages (the seed pair if none are stored);
\* deleting the only thread leaves no thread active and the seed pair;
\* deleting another thread leaves the active thread and the messages alone.
C22_DeleteSelectsFirstRemaining ==
    [][ lastOp'.op = "deleteThread"
        => LET t == lastOp'.thread
               remaining == SelectSeq(threads, LAMBDA x : x.id # t)
           IN /\ threads' = remaining
              /\ IF activeThreadId = t
                 THEN IF Len(remaining) > 0
                      THEN /\ activeThreadId' = remaining[1].id
                           /\ messages' = StoredMessages(remaining[1].id)
                      ELSE /\ activeThreadId' = NoThread
                           /\ messages' = SEED_MESSAGES
                 ELSE /\ activeThreadId' = activeThreadId
                      /\ messages' = messages ]_vars

\* the active thread was deleted, two threads remain and the conversation
\* of the first one is shown
C22_Witness ==
    /\ lastOp.op = "deleteThread"
    /\ lastOp.hit
    /\ Len(threads) = 2
    /\ activeThreadId = threads[1].id
    /\ messages # SEED_MESSAGES

\* C23: the typing indicator is on in every state where a query request has
\* been sent and its response has not been handled.
C23_TypingWhileUnresolved == Len(inflight) > 0 => isTyping

\* C25: while a thread is active, the snapshot stored under its key equals
\* the in-memory {messages, sources}; while no thread is active, no thread
\* snapshot is written.
C25_SnapshotEqualsMemory ==
    [][ /\ activeThreadId' # NoThread
           => stData'[activeThreadId'] =
                 JSONStringify(ThreadData(messages', sources'))
        /\ (activeThreadId = NoThread /\ activeThreadId' = NoThread)
           => stData' = stData ]_vars

\* a source was unticked while a thread with a conversation is active
C25_Witness ==
    /\ lastOp.op = "toggleSource"
    /\ activeThreadId # NoThread
    /\ messages # SEED_MESSAGES
    /\ \E i \in 1..Len(sources) : ~sources[i].enabled

\* C26: whenever a retrieval target is set, a source with the same file id
\* is in the source list.
C26_TargetIsListed ==
    uploadResult # NullUpload => HasSource(sources, uploadResult.file_id)

\* a source other than the retrieval target was deleted
C26_Witness ==
    /\ lastOp.op = "deleteSource"
    /\ ~lastOp.hit
    /\ uploadResult # NullUpload

\* the threads that are in the list before and after keep their order
OrderKept(before, after) ==
    \A i, j \in 1..Len(before), k, l \in 1..Len(after) :
        (i < j /\ after[k].id = before[i].id /\ after[l].id = before[j].id)
        => k < l

\* C29: rename and change-icon change only the title, or the icon, of the
\* thread with the given id: the other threads, the order of the list, the
\* active thread and the message list stay; and no operation changes the
\* relative order of the threads that remain in the list.
C29_RenameAndIconInPlace ==
    [][ /\ lastOp'.op \in {"renameThread", "changeIcon"}
           => /\ Len(threads') = Len(threads)
              /\ \A i \in 1..Len(threads) :
                    /\ threads'[i].id = threads[i].id
                    /\ threads[i].id # lastOp'.thread
                       => threads'[i] = threads[i]
                    /\ lastOp'.op = "renameThread"
                       => threads'[i].icon = threads[i].icon
                    /\ lastOp'.op = "changeIcon"
                       => threads'[i].title = threads[i].title
              /\ activeThreadId' = activeThreadId
              /\ messages' = messages
        /\ OrderKept(threads, threads') ]_vars

\* one of two threads was renamed, the other one keeps its title
C29_Witness ==
    /\ lastOp.op = "renameThread"
    /\ Len(threads) = 2
    /\ threads[1].title # threads[2].title
    /\ activeThreadId # lastOp.thread

\* C24: the typing indicator is on from the moment a request is issued until
\* its response has been handled; when a 2xx response is handled, one bot
\* message with the returned answer and citations is appended and the
\* typing indicator is off.
C24_TypingUntilReply ==
    [][ /\ Len(inflight') > 0 => isTyping'
        /\ lastOp'.op = "querySucceeded"
           => /\ \E data \in Replies :
                    messages' = Append(messages,
                                       BotMessage(data.answer, data.sources))
              /\ ~isTyping' ]_vars

\* C30: a recommend action appends one user message and issues its query
\* with use_rag = true whatever the retrieval flag is; when its query is
\* answered, fails or is rejected locally, actionLoading is set to false and
\* the banner is dismissed, and that does happen once the action has
\* started; an upload completion shows the banner again.
C30_RecommendAlwaysFinishes ==
    /\ [][ /\ lastOp'.op = "recommend"
              => /\ \E y \in {"summarize", "quiz"} :
                       messages' = Append(messages, UserMessage(y))
                 /\ lastOp'.ragOn
                 /\ ~lastOp'.rejected => (Sent /\ NewRequest.use_rag)
                 /\ lastOp'.rejected => (~actionLoading' /\ bannerDismissed')
           /\ (lastOp'.op \in {"querySucceeded", "queryFailed"}
               /\ lastOp'.hit)
              => (~actionLoading' /\ bannerDismissed')
           /\ lastOp'.op = "uploadComplete"
              => (~bannerDismissed' /\ uploadResult' # NullUpload) ]_vars
    /\ actionLoading ~> (~actionLoading /\ ~BannerShown)

\* a recommend action was run with the retrieval flag off, and its reply
\* has been handled
C30_Witness ==
    /\ lastOp.op = "querySucceeded"
    /\ lastOp.hit
    /\ lastOp.ragOn
    /\ ~useRag
    /\ ~actionLoading
    /\ bannerDismissed

\* C27: when an upload fails, progress is reset to 0, one error is reported,
\* the upload is settled for good (onUploadComplete will not run for it),
\* and the source list, the retrieval target, the retrieval flag and the
\* thread list of the page are left as they are.
C27_UploadFailureLeavesPage ==
    [][ lastOp'.op = "uploadFailed"
        => /\ progress' = 0
           /\ lastOp'.toasts = << "error" >>
           /\ \E i \in 1..Len(uploads) : uploads' = RemoveAt(uploads, i)
           /\ sources' = sources
           /\ uploadResult' = uploadResult
           /\ useRag' = useRag
           /\ threads' = threads ]_vars

\* an upload failed on a page that has a thread, a source and a target
C27_Witness ==
    /\ lastOp.op = "uploadFailed"
    /\ progress = 0
    /\ Len(threads) > 0
    /\ Len(sources) > 0
    /\ uploadResult # NullUpload

\* C28: the uploading flag is true while an upload request is in flight,
\* and once an upload request has settled the uploading flag is false and
\* no progress timer of a settled upload is left running.
C28_UploaderIdleAfterSettle ==
    /\ Len(uploads) > 0 => uploading
    /\ lastOp.op \in {"uploadComplete", "uploadFailed"}
       => (~uploading /\ intervals = Len(uploads))
====
